---------------------------- MODULE Spec2Model ----------------------------
(***************************************************************************)
(* Model of consul/lock.py: the ConsulLock context manager.                *)
(*                                                                         *)
(* Two ConsulLock instances ("A" and "B") are configured with the same     *)
(* lock key and talk to one Consul service.  Instance "A" is shared by two *)
(* caller threads, instance "B" is used by one.  Every HTTP request is one *)
(* atomic step; the Python statements between two requests touch only the  *)
(* instance and are folded into the step of the request before them.       *)
(*                                                                         *)
(* The service is modelled by its documented HTTP surface: sessions, and   *)
(* one key that is bound to at most one session ("Behavior": "delete"      *)
(* removes the key when its session goes away).  Every request may instead *)
(* fail in transport (requests raises), the info and key reads may answer  *)
(* a non-200 status, and the service may invalidate a session (TTL lapse). *)
(* These disturbances are counted in faults.  A request that fails in      *)
(* transport is taken not to have reached the service.                     *)
(*                                                                         *)
(* Spec starts after both constructors have returned.  SpecNew starts      *)
(* before them and adds __init__; SpecAnswers adds a key read answered 200 *)
(* with no entry; SpecLive is Spec with fair heartbeat threads.            *)
(***************************************************************************)
EXTENDS Integers, FiniteSets, TLC

\* ------------------------------------------------------------- bounds

\* Session ids the service hands out: 1..MaxSessions (0 stands for None).
MaxSessions == 2

\* Disturbances of the service (transport errors, non-200 answers, lapses).
MaxFaults == 1

\* Calls (__enter__, __exit__, session_is_active) the callers make in all.
MaxCalls == 3

\* ------------------------------------------------------------- constants

Instances == {"A", "B"}

Threads == {"a1", "a2", "b1"}

InstOf(t) == IF t = "b1" THEN "B" ELSE "A"

Other(i) == IF i = "A" THEN "B" ELSE "A"

None == 0

Ids == 1..MaxSessions

key_success_status_code == 200

lock_failure_response == "false"

\* The lock key both instances are configured with, and their lock value.
LockKey == 1

LockValue == 1

VARIABLES
    sessions,      \* service: the live session ids
    nextId,        \* service: the next session id to hand out
    kv,            \* service: the session the lock key is bound to, None: no key
    faults,        \* disturbances so far
    calls,         \* calls begun so far
    session_id,    \* [instance -> cached id or None]       self._session_id
    heartbeating,  \* [instance -> BOOLEAN]                 self._heartbeating
    heartbeat_thread, \* [instance -> worker or None]       self._heartbeat_thread
    semaphore,     \* [instance -> BOOLEAN]  TRUE: taken    self._semaphore
    pc,            \* [thread -> position of the caller]
    op,            \* [thread -> the call in progress: "enter", "exit", "none"]
    endpoint,      \* [thread -> the id in the destroy URL of _release_session]
    last,          \* the call that finished last, until the next one begins
    owner,         \* [id -> the instance the session was created for, or "none"]
    held,          \* [instance -> BOOLEAN] __enter__ returned, no __exit__ since
    worker,        \* [id -> heartbeat thread created with session id]
    lock_key,      \* [instance -> the lock_key its constructor is given, or None]
    lock_value     \* [instance -> the lock_value its constructor is given, or None]

vars == <<sessions, nextId, kv, faults, calls, session_id, heartbeating,
          heartbeat_thread, semaphore, pc, op, endpoint, last, owner, held,
          worker, lock_key, lock_value>>

service == <<sessions, nextId, kv, owner>>

instance == <<session_id, heartbeating, heartbeat_thread>>

caller == <<calls, semaphore, pc, op, endpoint, last>>

arguments == <<lock_key, lock_value>>

\* last.session: the session the call destroyed in _release_session, if any.
NoCall == [inst |-> "none", call |-> "none", outcome |-> "none", session |-> None]

\* No thread: not created yet, or ended.  A thread that has ended is never
\* looked at again (join and the reference only wait for it and drop it).
NoWorker == [inst |-> "A", pc |-> "none", ep |-> None]

Init ==
    /\ sessions = {}
    /\ nextId = 1
    /\ kv = None
    /\ faults = 0
    /\ calls = 0
    /\ session_id = [i \in Instances |-> None]
    /\ heartbeating = [i \in Instances |-> FALSE]
    /\ heartbeat_thread = [i \in Instances |-> None]
    /\ semaphore = [i \in Instances |-> FALSE]
    /\ pc = [t \in Threads |-> "idle"]
    /\ op = [t \in Threads |-> "none"]
    /\ endpoint = [t \in Threads |-> None]
    /\ last = NoCall
    /\ owner = [s \in Ids |-> "none"]
    /\ held = [i \in Instances |-> FALSE]
    /\ worker = [w \in Ids |-> NoWorker]
    /\ lock_key = [i \in Instances |-> LockKey]
    /\ lock_value = [i \in Instances |-> LockValue]

\* ------------------------------------------------------------- the service

\* GET v1/session/info/<id>: 200 and the array of the session objects.
ServiceInfo(s) ==
    [status |-> 200, ids |-> IF s \in sessions THEN {s} ELSE {}]

\* The info query answered with a non-success status.
InfoFailed == [status |-> 500, ids |-> {}]

\* GET v1/kv/<key>: 200 and the entries of the key, 404 when there is no key.
ServiceRead ==
    IF kv = None THEN [status |-> 404, entries |-> {}]
    ELSE [status |-> 200, entries |-> {kv}]

\* The key read answered with a non-success status.
ReadFailed == [status |-> 500, entries |-> {}]

\* PUT v1/kv/<key>?acquire=<s>: the body of the answer.  The key is bound to s
\* when s is a live session and the key is unbound or already bound to s.
AcquireContent(s) ==
    IF s \notin sessions THEN "invalid session"
    ELSE IF kv = None \/ kv = s THEN "true"
    ELSE "false"

\* The key binding after PUT v1/kv/<key>?acquire=<s>.
AcquireKv(s) ==
    IF s \in sessions /\ kv = None THEN s ELSE kv

\* The service without session s: its key goes with it (Behavior delete).
WithoutSession(s) ==
    /\ sessions' = sessions \ {s}
    /\ kv' = IF kv = s THEN None ELSE kv
    /\ UNCHANGED <<nextId, owner>>

\* Mutant of DestroyRequest: the request goes to the renew endpoint.
DestroyRequestRenews(s) ==
    UNCHANGED service

\* _release_session: PUT v1/session/destroy/<s>, answered.
DestroyRequest(s) ==
    WithoutSession(s)

\* One more call, within the bound.
Call ==
    /\ calls < MaxCalls
    /\ calls' = calls + 1

\* One more disturbance, within the bound.
Fault ==
    /\ faults < MaxFaults
    /\ faults' = faults + 1

\* The service invalidates a live session: its TTL lapsed unrenewed.
SessionLapse(s) ==
    /\ s \in sessions
    /\ Fault
    /\ WithoutSession(s)
    /\ UNCHANGED <<instance, caller, held, worker>>
    /\ UNCHANGED arguments

\* ------------------------------------------------------------- the constructor

\* The values a constructor argument can take: left out (the default None) or
\* given.
Arguments(given) == {None, given}

\* The state before any ConsulLock is constructed: the arguments the program
\* will pass are chosen, and the threads of an instance are at "new" until its
\* constructor has run.
InitNew ==
    /\ sessions = {}
    /\ nextId = 1
    /\ kv = None
    /\ faults = 0
    /\ calls = 0
    /\ session_id = [i \in Instances |-> None]
    /\ heartbeating = [i \in Instances |-> FALSE]
    /\ heartbeat_thread = [i \in Instances |-> None]
    /\ semaphore = [i \in Instances |-> FALSE]
    /\ pc = [t \in Threads |-> "new"]
    /\ op = [t \in Threads |-> "none"]
    /\ endpoint = [t \in Threads |-> None]
    /\ last = NoCall
    /\ owner = [s \in Ids |-> "none"]
    /\ held = [i \in Instances |-> FALSE]
    /\ worker = [w \in Ids |-> NoWorker]
    /\ lock_key \in [Instances -> Arguments(LockKey)]
    /\ lock_value \in [Instances -> Arguments(LockValue)]

\* Mutant of ParameterMissing: only lock_key is looked at.
ParameterMissingKeyOnly(key, value) ==
    key = None

\* __init__: lock_key is None or lock_value is None.
ParameterMissing(key, value) ==
    key = None \/ value = None

\* __init__: the fields are set, then LockParameterException is raised when
\* an argument is missing; the program gets no object then, and the threads
\* that would have used it stay at "failed".
New(i) ==
    LET raised == ParameterMissing(lock_key[i], lock_value[i]) IN
    /\ \A t \in Threads : InstOf(t) = i => pc[t] = "new"
    /\ session_id' = [session_id EXCEPT ![i] = None]
    /\ semaphore' = [semaphore EXCEPT ![i] = FALSE]
    /\ heartbeating' = [heartbeating EXCEPT ![i] = FALSE]
    /\ heartbeat_thread' = [heartbeat_thread EXCEPT ![i] = None]
    /\ pc' = [t \in Threads |->
                 IF InstOf(t) # i THEN pc[t]
                 ELSE IF raised THEN "failed" ELSE "idle"]
    /\ last' = [inst |-> i, call |-> "new", session |-> None, outcome |->
                   IF raised THEN "LockParameterException" ELSE "ok"]
    /\ UNCHANGED <<service, faults, calls, op, endpoint, held, worker, arguments>>

\* ------------------------------------------------------------- the caller

\* Mutant of Finish: the semaphore is released by a release() call at the end
\* of the method, which an exception skips.
FinishKeepsSemaphoreOnError(t, outcome, destroyed) ==
    /\ semaphore' = [semaphore EXCEPT ![InstOf(t)] = (outcome # "ok")]
    /\ pc' = [pc EXCEPT ![t] = "idle"]
    /\ op' = [op EXCEPT ![t] = "none"]
    /\ endpoint' = [endpoint EXCEPT ![t] = None]
    /\ last' = [inst |-> InstOf(t), call |-> op[t], outcome |-> outcome,
                session |-> destroyed]
    /\ UNCHANGED calls

\* A call of thread t ends: the with block releases the semaphore.
Finish(t, outcome, destroyed) ==
    /\ semaphore' = [semaphore EXCEPT ![InstOf(t)] = FALSE]
    /\ pc' = [pc EXCEPT ![t] = "idle"]
    /\ op' = [op EXCEPT ![t] = "none"]
    /\ endpoint' = [endpoint EXCEPT ![t] = None]
    /\ last' = [inst |-> InstOf(t), call |-> op[t], outcome |-> outcome,
                session |-> destroyed]
    /\ UNCHANGED calls

\* requests raises (connection failure, timeout) in a call under the
\* semaphore: nothing catches it, the call ends with the instance as it is.
TransportError(t) ==
    /\ Fault
    /\ Finish(t, "TransportError", None)
    /\ UNCHANGED <<service, instance, held, worker>>

\* with self._semaphore: of __enter__
EnterBegin(t) ==
    /\ pc[t] = "idle"
    /\ ~semaphore[InstOf(t)]
    /\ Call
    /\ semaphore' = [semaphore EXCEPT ![InstOf(t)] = TRUE]
    /\ pc' = [pc EXCEPT ![t] = "acquire"]
    /\ op' = [op EXCEPT ![t] = "enter"]
    /\ last' = NoCall
    /\ UNCHANGED <<service, faults, instance, endpoint, held, worker>>
    /\ UNCHANGED arguments

\* _start_heartbeat after its _stop_heartbeat: the flag is set and a new
\* thread is created and started.  The thread made for a session carries the
\* session's number; it reads self._session_id only when it runs.
StartThread(i) ==
    /\ heartbeating' = [heartbeating EXCEPT ![i] = TRUE]
    /\ heartbeat_thread' = [heartbeat_thread EXCEPT ![i] = session_id'[i]]
    /\ worker' = [worker EXCEPT ![session_id'[i]] =
                      [inst |-> i, pc |-> "start", ep |-> None]]

\* Mutant of CreateSession: after the create the method calls itself again
\* to validate the new session instead of returning it.
CreateSessionRevalidates(t) ==
    LET i == InstOf(t) IN
    /\ pc[t] = "acquire"
    /\ session_id[i] = None
    /\ nextId <= MaxSessions
    /\ sessions' = sessions \cup {nextId}
    /\ nextId' = nextId + 1
    /\ owner' = [owner EXCEPT ![nextId] = i]
    /\ session_id' = [session_id EXCEPT ![i] = nextId]
    /\ IF heartbeat_thread[i] # None
       THEN /\ heartbeating' = [heartbeating EXCEPT ![i] = FALSE]
            /\ pc' = [pc EXCEPT ![t] = "start_join"]
            /\ UNCHANGED <<heartbeat_thread, worker>>
       ELSE /\ StartThread(i)
            /\ UNCHANGED pc
    /\ UNCHANGED <<kv, faults, calls, semaphore, op, endpoint, last, held>>
    /\ UNCHANGED arguments

\* _acquire_session, self._session_id is None: create the session, cache its
\* id and enter _start_heartbeat, whose _stop_heartbeat clears the flag and
\* joins the previous thread if there is one.
CreateSession(t) ==
    LET i == InstOf(t) IN
    /\ pc[t] = "acquire"
    /\ session_id[i] = None
    /\ nextId <= MaxSessions
    /\ sessions' = sessions \cup {nextId}
    /\ nextId' = nextId + 1
    /\ owner' = [owner EXCEPT ![nextId] = i]
    /\ session_id' = [session_id EXCEPT ![i] = nextId]
    /\ IF heartbeat_thread[i] # None
       THEN /\ heartbeating' = [heartbeating EXCEPT ![i] = FALSE]
            /\ pc' = [pc EXCEPT ![t] = "start_join"]
            /\ UNCHANGED <<heartbeat_thread, worker>>
       ELSE /\ StartThread(i)
            /\ pc' = [pc EXCEPT ![t] = "lock_put"]
    /\ UNCHANGED <<kv, faults, calls, semaphore, op, endpoint, last, held>>
    /\ UNCHANGED arguments

\* self._heartbeat_thread.join(self._join_timeout) returns: the thread has
\* ended, or _join_timeout has passed while the thread was in its renew
\* request or asleep (a thread that is ready to run does run within the
\* timeout).
JoinReturns(i) ==
    worker[heartbeat_thread[i]].pc \in {"none", "renew"}

\* _stop_heartbeat inside _start_heartbeat: join returns, the reference is
\* dropped and the new thread is started.
StartJoin(t) ==
    LET i == InstOf(t) IN
    /\ pc[t] = "start_join"
    /\ JoinReturns(i)
    /\ UNCHANGED session_id
    /\ StartThread(i)
    /\ pc' = [pc EXCEPT ![t] = "lock_put"]
    /\ UNCHANGED <<service, faults, calls, semaphore, op, endpoint, last, held>>
    /\ UNCHANGED arguments

\* Mutant of SessionListed: the comparison never matches.
SessionListedNever(resp, s) ==
    /\ resp.status = 200
    /\ s \in resp.ids
    /\ s = None

\* _acquire_session: whether the info answer shows the cached session.
SessionListed(resp, s) ==
    /\ resp.status = 200
    /\ s \in resp.ids

\* _acquire_session, a session id is cached: the info query.  A listed id is
\* kept; otherwise the id is cleared and the method calls itself.
ValidateSession(t, resp) ==
    LET i == InstOf(t) IN
    /\ pc[t] = "acquire"
    /\ session_id[i] # None
    /\ IF SessionListed(resp, session_id[i])
       THEN /\ pc' = [pc EXCEPT ![t] = "lock_put"]
            /\ UNCHANGED session_id
       ELSE /\ session_id' = [session_id EXCEPT ![i] = None]
            /\ UNCHANGED pc
    /\ UNCHANGED <<service, heartbeating, heartbeat_thread, calls, semaphore,
                   op, endpoint, last, held, worker>>

\* _acquire_session with the service's own answer to the info query.
AcquireSessionInfo(t) ==
    /\ ValidateSession(t, ServiceInfo(session_id[InstOf(t)]))
    /\ UNCHANGED faults
    /\ UNCHANGED arguments

\* _acquire_session with a non-success answer to the info query.
AcquireSessionInfoFailed(t) ==
    /\ Fault
    /\ ValidateSession(t, InfoFailed)
    /\ UNCHANGED arguments

\* _acquire_session: the create or the info request raises.
AcquireSessionError(t) ==
    /\ pc[t] = "acquire"
    /\ TransportError(t)
    /\ UNCHANGED arguments

\* _lock: what acquire_response.content == lock_failure_response can give.
\* content is a str under Python 2 and compares by its text; it is bytes
\* under Python 3 (setup.py names both), and bytes never equal a str.
IsFailureResponse(content) ==
    IF content = lock_failure_response THEN {TRUE, FALSE} ELSE {FALSE}

\* _lock: the conditional write.  When the comparison with the failure
\* sentinel holds the method goes to _release_session, otherwise to the
\* re-read.
LockPut(t) ==
    LET i == InstOf(t) IN
    /\ pc[t] = "lock_put"
    /\ kv' = AcquireKv(session_id[i])
    /\ \E failed \in IsFailureResponse(AcquireContent(session_id[i])) :
           pc' = [pc EXCEPT ![t] = IF failed THEN "destroy" ELSE "lock_get"]
    /\ UNCHANGED <<sessions, nextId, owner, faults, instance, calls, semaphore,
                   op, endpoint, last, held, worker>>
    /\ UNCHANGED arguments

\* _lock: the conditional write raises.
LockPutError(t) ==
    /\ pc[t] = "lock_put"
    /\ TransportError(t)
    /\ UNCHANGED arguments

\* Mutant of LockVerified: the entries' sessions are not compared.
LockVerifiedStatusOnly(resp, s) ==
    resp.status = key_success_status_code

\* _lock: the re-read passes when its status is 200 and no entry is bound to
\* another session than the cached one.
LockVerified(resp, s) ==
    /\ resp.status = key_success_status_code
    /\ \A lock \in resp.entries : lock = s

\* _lock: the re-read.  __enter__ returns when it passes; otherwise the
\* method goes to _release_session.
VerifyLock(t, resp) ==
    LET i == InstOf(t) IN
    /\ pc[t] = "lock_get"
    /\ IF LockVerified(resp, session_id[i])
       THEN /\ Finish(t, "ok", None)
            /\ held' = [held EXCEPT ![i] = TRUE]
       ELSE /\ pc' = [pc EXCEPT ![t] = "destroy"]
            /\ UNCHANGED <<calls, semaphore, op, endpoint, last, held>>
    /\ UNCHANGED <<service, instance, worker>>

\* _lock with the service's own answer to the re-read.
LockGet(t) ==
    /\ VerifyLock(t, ServiceRead)
    /\ UNCHANGED faults
    /\ UNCHANGED arguments

\* _lock with a non-success answer to the re-read.
LockGetFailed(t) ==
    /\ Fault
    /\ VerifyLock(t, ReadFailed)
    /\ UNCHANGED arguments

\* A key read answered with status 200 and an empty list of entries.
ReadEmpty == [status |-> 200, entries |-> {}]

\* _lock with a re-read answered 200 and no entry: the loop over the entries
\* has nothing to compare.
LockGetEmpty(t) ==
    /\ Fault
    /\ VerifyLock(t, ReadEmpty)
    /\ UNCHANGED arguments

\* _lock: the re-read raises.
LockGetError(t) ==
    /\ pc[t] = "lock_get"
    /\ TransportError(t)
    /\ UNCHANGED arguments

\* Mutant of ExitBegin: __exit__ goes to _release_session without taking the
\* semaphore.
ExitBeginUnguarded(t) ==
    /\ pc[t] = "idle"
    /\ Call
    /\ semaphore' = [semaphore EXCEPT ![InstOf(t)] = TRUE]
    /\ pc' = [pc EXCEPT ![t] = "destroy"]
    /\ op' = [op EXCEPT ![t] = "exit"]
    /\ held' = [held EXCEPT ![InstOf(t)] = FALSE]
    /\ last' = NoCall
    /\ UNCHANGED <<service, faults, instance, endpoint, worker>>
    /\ UNCHANGED arguments

\* with self._semaphore: of __exit__, which goes to _release_session.
ExitBegin(t) ==
    /\ pc[t] = "idle"
    /\ ~semaphore[InstOf(t)]
    /\ Call
    /\ semaphore' = [semaphore EXCEPT ![InstOf(t)] = TRUE]
    /\ pc' = [pc EXCEPT ![t] = "destroy"]
    /\ op' = [op EXCEPT ![t] = "exit"]
    /\ held' = [held EXCEPT ![InstOf(t)] = FALSE]
    /\ last' = NoCall
    /\ UNCHANGED <<service, faults, instance, endpoint, worker>>
    /\ UNCHANGED arguments

\* How a call that has run _release_session ends: _lock raises
\* LockAcquireException after it, __exit__ returns.
Released(t, destroyed) ==
    Finish(t, IF op[t] = "enter" THEN "LockAcquireException" ELSE "ok", destroyed)

\* Mutant of AfterDestroy: the cached id is not cleared.
AfterDestroyKeepsId(i) ==
    /\ heartbeating' = [heartbeating EXCEPT ![i] = FALSE]
    /\ UNCHANGED session_id

\* The instance after the destroy request of _release_session is answered:
\* the cached id is cleared, and _stop_heartbeat clears the flag.
AfterDestroy(i) ==
    /\ session_id' = [session_id EXCEPT ![i] = None]
    /\ heartbeating' = [heartbeating EXCEPT ![i] = FALSE]

\* _release_session with a cached id: the destroy request, then the id is
\* cleared and _stop_heartbeat clears the flag and joins the thread.
ReleaseSession(t) ==
    LET i == InstOf(t) IN
    /\ pc[t] = "destroy"
    /\ session_id[i] # None
    /\ DestroyRequest(session_id[i])
    /\ AfterDestroy(i)
    /\ IF heartbeat_thread[i] # None
       THEN /\ pc' = [pc EXCEPT ![t] = "release_join"]
            /\ endpoint' = [endpoint EXCEPT ![t] = session_id[i]]
            /\ UNCHANGED <<calls, semaphore, op, last>>
       ELSE Released(t, session_id[i])
    /\ UNCHANGED <<faults, heartbeat_thread, held, worker>>
    /\ UNCHANGED arguments

\* _release_session without a cached id: _endpoint joins None into the URL
\* and raises TypeError before any request is sent.
ReleaseSessionNone(t) ==
    /\ pc[t] = "destroy"
    /\ session_id[InstOf(t)] = None
    /\ Finish(t, "TypeError", None)
    /\ UNCHANGED <<service, faults, instance, held, worker>>
    /\ UNCHANGED arguments

\* _release_session: the destroy request raises, before the id is cleared.
ReleaseSessionError(t) ==
    /\ pc[t] = "destroy"
    /\ session_id[InstOf(t)] # None
    /\ TransportError(t)
    /\ UNCHANGED arguments

\* _stop_heartbeat inside _release_session: join returns and the reference
\* is dropped.
ReleaseJoin(t) ==
    /\ pc[t] = "release_join"
    /\ JoinReturns(InstOf(t))
    /\ heartbeat_thread' = [heartbeat_thread EXCEPT ![InstOf(t)] = None]
    /\ Released(t, endpoint[t])
    /\ UNCHANGED <<service, faults, session_id, heartbeating, held, worker>>
    /\ UNCHANGED arguments

\* Mutant of IsActive: the answer to the info query is not looked at.
IsActiveCachedOnly(cached, resp) ==
    cached # None

\* session_is_active: the value it returns for the cached id and the answer
\* to the info query.
IsActive(cached, resp) ==
    /\ cached # None
    /\ resp.status = 200
    /\ cached \in resp.ids

\* Mutant of IsActiveEffect: a session found inactive is forgotten, as
\* _acquire_session does.
IsActiveEffectClearsStale(i, active) ==
    /\ session_id' = [session_id EXCEPT ![i] = IF active THEN @ ELSE None]
    /\ UNCHANGED <<service, heartbeating, heartbeat_thread>>

\* What session_is_active does to instance i and to the service, whatever
\* value it returns: nothing.
IsActiveEffect(i, active) ==
    UNCHANGED <<service, instance>>

\* session_is_active, called by a thread that is in no other call.
CheckSession(t, resp) ==
    /\ pc[t] = "idle"
    /\ Call
    /\ last' = [inst |-> InstOf(t), call |-> "check", session |-> None, outcome |->
                   IF IsActive(session_id[InstOf(t)], resp) THEN "true" ELSE "false"]
    /\ IsActiveEffect(InstOf(t), IsActive(session_id[InstOf(t)], resp))
    /\ UNCHANGED <<semaphore, pc, op, endpoint, held, worker>>

\* session_is_active with the service's own answer (without a cached id no
\* request is sent).
SessionIsActive(t) ==
    /\ CheckSession(t, ServiceInfo(session_id[InstOf(t)]))
    /\ UNCHANGED faults
    /\ UNCHANGED arguments

\* session_is_active with a non-success answer to the info query.
SessionIsActiveFailed(t) ==
    /\ session_id[InstOf(t)] # None
    /\ Fault
    /\ CheckSession(t, InfoFailed)
    /\ UNCHANGED arguments

\* session_is_active: the info request raises.
SessionIsActiveError(t) ==
    /\ pc[t] = "idle"
    /\ session_id[InstOf(t)] # None
    /\ Call
    /\ Fault
    /\ last' = [inst |-> InstOf(t), call |-> "check", outcome |-> "TransportError",
                session |-> None]
    /\ UNCHANGED <<service, instance, semaphore, pc, op, endpoint, held, worker>>
    /\ UNCHANGED arguments

\* ------------------------------------------------------------- the heartbeat

\* _heartbeat, first line: the renew URL is built from the id cached when the
\* thread runs; with None cached, _endpoint raises TypeError and the thread
\* ends.
HeartbeatStart(w) ==
    /\ worker[w].pc = "start"
    /\ worker' = [worker EXCEPT ![w] =
                      IF session_id[worker[w].inst] = None
                      THEN NoWorker
                      ELSE [@ EXCEPT !.pc = "check",
                                     !.ep = session_id[worker[w].inst]]]
    /\ UNCHANGED <<service, faults, instance, caller, held>>
    /\ UNCHANGED arguments

\* _heartbeat: while self._heartbeating.
HeartbeatCheck(w) ==
    /\ worker[w].pc = "check"
    /\ worker' = [worker EXCEPT ![w] =
                      IF heartbeating[worker[w].inst]
                      THEN [@ EXCEPT !.pc = "renew"] ELSE NoWorker]
    /\ UNCHANGED <<service, faults, instance, caller, held>>
    /\ UNCHANGED arguments

\* _heartbeat: the renew request is answered (the answer is not read) and
\* the thread has slept _sleep_duration.
HeartbeatRenew(w) ==
    /\ worker[w].pc = "renew"
    /\ worker' = [worker EXCEPT ![w].pc = "check"]
    /\ UNCHANGED <<service, faults, instance, caller, held>>
    /\ UNCHANGED arguments

\* _heartbeat: the renew request raises; nothing catches it and the thread
\* ends.
HeartbeatRenewError(w) ==
    /\ worker[w].pc = "renew"
    /\ Fault
    /\ worker' = [worker EXCEPT ![w] = NoWorker]
    /\ UNCHANGED <<service, instance, caller, held>>
    /\ UNCHANGED arguments

\* ------------------------------------------------------------- the system

Next ==
    \/ \E t \in Threads : EnterBegin(t)
    \/ \E t \in Threads : CreateSession(t)
    \/ \E t \in Threads : StartJoin(t)
    \/ \E t \in Threads : AcquireSessionInfo(t)
    \/ \E t \in Threads : AcquireSessionInfoFailed(t)
    \/ \E t \in Threads : AcquireSessionError(t)
    \/ \E t \in Threads : LockPut(t)
    \/ \E t \in Threads : LockPutError(t)
    \/ \E t \in Threads : LockGet(t)
    \/ \E t \in Threads : LockGetFailed(t)
    \/ \E t \in Threads : LockGetError(t)
    \/ \E t \in Threads : ExitBegin(t)
    \/ \E t \in Threads : ReleaseSession(t)
    \/ \E t \in Threads : ReleaseSessionNone(t)
    \/ \E t \in Threads : ReleaseSessionError(t)
    \/ \E t \in Threads : ReleaseJoin(t)
    \/ \E t \in Threads : SessionIsActive(t)
    \/ \E t \in Threads : SessionIsActiveFailed(t)
    \/ \E t \in Threads : SessionIsActiveError(t)
    \/ \E w \in Ids : HeartbeatStart(w)
    \/ \E w \in Ids : HeartbeatCheck(w)
    \/ \E w \in Ids : HeartbeatRenew(w)
    \/ \E w \in Ids : HeartbeatRenewError(w)
    \/ \E s \in Ids : SessionLapse(s)

Spec == Init /\ [][Next]_vars

\* The program from before the construction of its ConsulLock objects.
NextNew ==
    \/ \E i \in Instances : New(i)
    \/ Next

SpecNew == InitNew /\ [][NextNew]_vars

\* Scheduling of the heartbeat threads: a thread that can run does run, and a
\* request that was sent ends, by an answer or by an exception of requests
\* (timeout=self._requests_timeout), and the sleep after it ends too.
HeartbeatFairness ==
    \A w \in Ids :
        /\ WF_vars(HeartbeatStart(w))
        /\ WF_vars(HeartbeatCheck(w))
        /\ WF_vars(HeartbeatRenew(w) \/ HeartbeatRenewError(w))

SpecLive == Spec /\ HeartbeatFairness

\* The program against a service whose key read may also answer 200 with an
\* empty list.
NextAnswers ==
    \/ \E t \in Threads : LockGetEmpty(t)
    \/ Next

SpecAnswers == Init /\ [][NextAnswers]_vars

\* ------------------------------------------------------------- properties

\* The call that finished last was call c on instance i with outcome o.
LastWas(i, c, o) ==
    /\ last.inst = i
    /\ last.call = c
    /\ last.outcome = o

\* The sessions created for instance i that are live at the service.
LiveSessionsOf(i) == {s \in sessions : owner[s] = i}

\* The service holds nothing of instance i: no session, no key binding.
NothingLeftOf(i) ==
    /\ LiveSessionsOf(i) = {}
    /\ kv # None => owner[kv] # i

\* C1: two instances with the same key entering against a service that
\* answers every request and invalidates no session (faults = 0): in no
\* state have both __enter__ calls returned without an __exit__ since, and an
\* __enter__ that ends while the other instance holds the lock has raised
\* LockAcquireException.
C1_AtMostOneEnters ==
    faults = 0 =>
        /\ ~(held["A"] /\ held["B"])
        /\ \A i \in Instances :
               (last.inst = i /\ last.call = "enter" /\ held[Other(i)])
                   => last.outcome = "LockAcquireException"

\* C1 witness: A and B made one call each, B created its session first, A
\* holds the lock and B's __enter__ has raised LockAcquireException.
C1_Witness ==
    /\ faults = 0
    /\ calls = 2
    /\ held["A"]
    /\ session_id["A"] = 2
    /\ kv = 2
    /\ LastWas("B", "enter", "LockAcquireException")

\* C2: after an __exit__ has returned, the cached id is None and the
\* heartbeat flag is false, the session it destroyed is gone and the key is
\* not bound to it; when every request so far was answered as documented
\* (faults = 0) the service holds no session and no key binding of the
\* instance at all.
C2_CycleLeavesNothing ==
    \A i \in Instances :
        LastWas(i, "exit", "ok") =>
            /\ session_id[i] = None
            /\ ~heartbeating[i]
            /\ last.session # None
            /\ last.session \notin sessions
            /\ kv # last.session
            /\ faults = 0 => NothingLeftOf(i)

\* C2 witness: A's __enter__ created session 1 and bound the key, and A's
\* __exit__ has returned.
C2_Witness ==
    /\ faults = 0
    /\ calls = 2
    /\ owner[1] = "A"
    /\ LastWas("A", "exit", "ok")
    /\ last.session = 1

\* C3 as claimed: whenever __enter__ has raised, the cached id is None, the
\* heartbeat flag is cleared and the instance has no live session.
C3_EnterRaisesClean ==
    \A i \in Instances :
        (/\ last.inst = i
         /\ last.call = "enter"
         /\ last.outcome \in {"LockAcquireException", "TransportError"})
            => /\ session_id[i] = None
               /\ ~heartbeating[i]
               /\ LiveSessionsOf(i) = {}

C5_ExitAlwaysReleases ==
    \A i \in Instances :
        (/\ last.inst = i
         /\ last.call = "exit"
         /\ last.outcome \in {"ok", "TransportError"})
            => /\ session_id[i] = None
               /\ ~heartbeating[i]

\* A heartbeat thread of instance i is running.
HeartbeatRunning(i) ==
    \E w \in Ids : worker[w].inst = i /\ worker[w].pc # "none"

\* C6 as claimed: whenever the semaphore of an instance is free, one of its
\* heartbeat threads is running if and only if a session id is cached.
C6_HeartbeatIffSession ==
    \A i \in Instances :
        ~semaphore[i] => (HeartbeatRunning(i) <=> session_id[i] # None)

\* Thread t ends its call in this step.
Ends(t) ==
    /\ op[t] # "none"
    /\ op'[t] = "none"

\* C7 as claimed: an __enter__ on an instance whose lock is held (an earlier
\* __enter__ returned and no __exit__ has begun since) never returns.
C7_NoEnterWhileHeld ==
    [][\A t \in Threads :
           (op[t] = "enter" /\ held[InstOf(t)] /\ Ends(t))
               => last'.outcome # "ok"]_vars

\* A call of session_is_active on instance i is made in this step.
Checks(i) ==
    /\ calls' # calls
    /\ last'.call = "check"
    /\ last'.inst = i

\* No session was ever created for instance i: no __enter__ has got as far
\* as caching one.
NeverEntered(i) == \A s \in Ids : owner[s] # i

\* C8 as claimed: session_is_active returns false before the first __enter__
\* and true whenever the lock is held.
C8_ActiveWhileHeld ==
    [][\A i \in Instances :
           Checks(i) =>
               /\ NeverEntered(i) => last'.outcome = "false"
               /\ held[i] => last'.outcome = "true"]_vars

\* C8 amended: session_is_active returns false before the first __enter__;
\* while the lock is held it returns true exactly when the cached session is
\* live at the service and the info query is answered with 200, false when
\* the session is gone or not cached or the answer is not 200, and it raises
\* only when the request fails in transport.
C8_ActiveIffLive ==
    [][\A i \in Instances :
           Checks(i) =>
               /\ NeverEntered(i) => last'.outcome = "false"
               /\ (held[i] /\ faults' = faults) =>
                      last'.outcome =
                          (IF session_id[i] \in sessions THEN "true" ELSE "false")
               /\ (held[i] /\ faults' # faults) =>
                      last'.outcome \in {"false", "TransportError"}]_vars

\* C8 witness: the lock of A is held and session_is_active has returned true.
C8_Witness ==
    /\ held["A"]
    /\ LastWas("A", "check", "true")
    /\ session_id["A"] \in sessions

\* C9: a call of session_is_active, whatever the answer to its info query,
\* leaves the cached id, the heartbeat flag, the thread reference and the
\* service's sessions and key binding as they were.
C9_IsActiveReadOnly ==
    [][\A i \in Instances :
           Checks(i) => UNCHANGED <<session_id, heartbeating, heartbeat_thread,
                                    sessions, kv>>]_vars

\* C9 witness: session_is_active has returned false on a non-200 answer
\* while the session of A is cached and live.
C9_Witness ==
    /\ LastWas("A", "check", "false")
    /\ faults = 1
    /\ session_id["A"] # None
    /\ session_id["A"] \in sessions
    /\ heartbeating["A"]

\* Thread t, in _acquire_session with a cached id, clears the id in this step.
Recreates(t) ==
    /\ pc[t] = "acquire"
    /\ session_id[InstOf(t)] # None
    /\ session_id'[InstOf(t)] = None

\* C10 as claimed: the cached id is cleared for a new session only when the
\* info query was answered by the service without the cached id.
C10_RecreateOnlyWhenAbsent ==
    [][\A t \in Threads :
           Recreates(t) =>
               /\ faults' = faults
               /\ session_id[InstOf(t)] \notin sessions]_vars

\* C10 amended: the cached id is cleared for a new session when the info
\* query is answered without the cached id or with a non-success status, and
\* only then; when the info request fails in transport the error reaches the
\* caller, the id stays cached and no session is created.
C10_RecreateWhenAbsentOrFailed ==
    [][\A t \in Threads :
           /\ Recreates(t) =>
                  /\ op'[t] = "enter"
                  /\ pc'[t] = "acquire"
                  /\ faults' = faults => session_id[InstOf(t)] \notin sessions
           /\ (pc[t] = "acquire" /\ session_id[InstOf(t)] # None /\ pc'[t] = "lock_put")
                  => /\ faults' = faults
                     /\ session_id[InstOf(t)] \in sessions
                     /\ UNCHANGED <<session_id, sessions, nextId>>
           /\ (pc[t] = "acquire" /\ session_id[InstOf(t)] # None /\ Ends(t))
                  => /\ last'.outcome = "TransportError"
                     /\ UNCHANGED <<session_id, sessions, nextId>>]_vars

\* C10 witness: a thread of A is back at the start of _acquire_session with
\* the id cleared after a non-200 answer, while the session it had cached is
\* still live.
C10_Witness ==
    /\ faults = 1
    /\ \E t \in Threads :
           /\ InstOf(t) = "A"
           /\ pc[t] = "acquire"
           /\ session_id["A"] = None
           /\ heartbeat_thread["A"] # None
           /\ LiveSessionsOf("A") # {}

\* The constructor of instance i runs in this step.
Constructs(i) ==
    /\ \A t \in Threads : InstOf(t) = i => pc[t] = "new"
    /\ \E t \in Threads : InstOf(t) = i /\ pc'[t] # "new"

\* C11: a constructor given no lock_key or no lock_value raises
\* LockParameterException, and a constructor given both does not; when it
\* raises, the step has sent nothing to the service (its sessions, key and
\* disturbance count are as before), no heartbeat thread exists or is
\* referenced, and the threads of that instance can make no call afterwards.
C11_MissingParameterRaises ==
    [][\A i \in Instances :
           Constructs(i) =>
               /\ last'.inst = i
               /\ last'.call = "new"
               /\ (lock_key[i] = None \/ lock_value[i] = None)
                      <=> last'.outcome = "LockParameterException"
               /\ last'.outcome = "LockParameterException" =>
                      /\ UNCHANGED <<sessions, nextId, kv, owner, faults, worker>>
                      /\ heartbeat_thread'[i] = None
                      /\ ~heartbeating'[i]
                      /\ ~HeartbeatRunning(i)'
                      /\ \A t \in Threads : InstOf(t) = i => pc'[t] = "failed"]_vars

\* C11 witness: the constructor of B, given a lock_key but no lock_value, has
\* raised LockParameterException while A holds the lock.
C11_Witness ==
    /\ lock_key["B"] # None
    /\ lock_value["B"] = None
    /\ pc["b1"] = "failed"
    /\ LastWas("B", "new", "LockParameterException")
    /\ held["A"]
    /\ NeverEntered("B")

\* The __enter__ of thread t returns in this step.
EnterReturns(t) ==
    /\ op[t] = "enter"
    /\ Ends(t)
    /\ last'.outcome = "ok"

\* C12 as claimed: __enter__ returns only when the re-read was the service's
\* own answer and listed the key bound to the cached session: an entry of
\* this session, none of another, and never on an answer without entries.
C12_LockNeedsOwnEntry ==
    [][\A t \in Threads :
           EnterReturns(t) =>
               /\ faults' = faults
               /\ ServiceRead.status = key_success_status_code
               /\ ServiceRead.entries = {session_id[InstOf(t)]}]_vars

\* The heartbeat threads of instance i that have been started and not ended.
WorkersOf(i) == {w \in Ids : worker[w].inst = i /\ worker[w].pc # "none"}

\* C13 as claimed: in every state at most one heartbeat thread of an instance
\* is alive.
C13_OneWorkerAlive ==
    \A i \in Instances : Cardinality(WorkersOf(i)) <= 1

\* Heartbeat thread w sends a renew request in this step: it has found the
\* flag set and goes into requests.put.
Renews(w) ==
    /\ worker[w].pc = "check"
    /\ worker'[w].pc = "renew"

\* C14 as claimed: every renew request is for the session id the instance
\* has cached when the request is sent.
C14_RenewsCachedSession ==
    [][\A w \in Ids :
           Renews(w) => worker[w].ep = session_id[worker[w].inst]]_vars

\* Instance i holds a session: an __enter__ returned, no __exit__ has begun
\* since, and the session id is cached.
HoldsSession(i) ==
    /\ held[i]
    /\ session_id[i] # None

\* A heartbeat thread of instance i is in its renew request (or the sleep
\* that follows it).
Renewing(i) ==
    \E w \in WorkersOf(i) : worker[w].pc = "renew"

\* C15 as claimed: while an instance holds a session, under fair scheduling
\* of the heartbeat threads a renew request always eventually follows,
\* whatever became of the earlier ones.
C15_RenewsWhileHeld ==
    \A i \in Instances :
        HoldsSession(i) ~> (Renewing(i) \/ ~HoldsSession(i))

\* The caller threads of instance i that are inside __enter__ or __exit__:
\* in _acquire_session, _lock or _release_session.
Inside(i) == {t \in Threads : InstOf(t) = i /\ pc[t] \notin {"idle", "new", "failed"}}

\* C16: a step that changes the cached session id or the heartbeat flag of an
\* instance is taken while its semaphore is held by the one caller thread
\* that is inside __enter__ or __exit__; in every state at most one thread
\* of an instance is inside, and then the semaphore is taken.
C16_MutationUnderSemaphore ==
    [][\A i \in Instances :
           /\ (session_id'[i] # session_id[i] \/ heartbeating'[i] # heartbeating[i])
                  => /\ semaphore[i]
                     /\ Cardinality(Inside(i)) = 1
           /\ Cardinality(Inside(i)') <= 1
           /\ Inside(i)' # {} => semaphore'[i]]_vars

\* C16 witness: a thread of A is in _lock with the session cached and the
\* flag set while the other thread of A is outside, and B's thread is in
\* _release_session at the same time.
C16_Witness ==
    /\ pc["a1"] = "lock_get"
    /\ pc["a2"] = "idle"
    /\ semaphore["A"]
    /\ session_id["A"] # None
    /\ heartbeating["A"]
    /\ pc["b1"] = "destroy"
    /\ session_id["B"] # None

\* What an invocation of _acquire_session by thread t has left to do at
\* most: 3 before the info query, 2 before the create request, 1 in the join
\* of _start_heartbeat, 0 when t is not in _acquire_session.
Remaining(t) ==
    IF pc[t] = "acquire"
    THEN (IF session_id[InstOf(t)] # None THEN 3 ELSE 2)
    ELSE IF pc[t] = "start_join" THEN 1 ELSE 0

\* A step of the invocation of _acquire_session by thread t.
AcquireSessionStep(t) ==
    /\ Remaining(t) > 0
    /\ pc'[t] # pc[t] \/ session_id'[InstOf(t)] # session_id[InstOf(t)]

\* C17: every step of an invocation of _acquire_session brings it nearer to
\* its end, so it ends after at most one info query, one recursive call and
\* one create request: the info query creates no session and either returns,
\* raises, or clears the id and leaves the create to do; the create request
\* is sent with no id cached and is followed only by the join of
\* _start_heartbeat, which sends nothing.
C17_AcquireSessionBounded ==
    [][\A t \in Threads :
           AcquireSessionStep(t) =>
               /\ Remaining(t)' < Remaining(t)
               /\ Remaining(t) = 3 =>
                      /\ UNCHANGED <<sessions, nextId>>
                      /\ Remaining(t)' = 2 => session_id'[InstOf(t)] = None
               /\ Remaining(t) = 2 =>
                      /\ nextId' \in {nextId, nextId + 1}
                      /\ Remaining(t)' = 1 => session_id'[InstOf(t)] # None
               /\ Remaining(t) = 1 => UNCHANGED <<sessions, nextId>>]_vars

\* C17 witness: the second __enter__ on A found its session 1 gone, cleared
\* the id, created session 2 in the recursive call and has left
\* _acquire_session.
C17_Witness ==
    /\ calls = 2
    /\ held["A"]
    /\ owner[1] = "A"
    /\ 1 \notin sessions
    /\ session_id["A"] = 2
    /\ heartbeat_thread["A"] = 2
    /\ \E t \in Threads : InstOf(t) = "A" /\ pc[t] = "lock_put"

\* Instance i is Idle: no __enter__ has returned since the last __exit__
\* began (none was called, or it raised), and no call is in progress.
Idle(i) ==
    /\ ~held[i]
    /\ Inside(i) = {}

\* Thread t calls __exit__ in this step.
ExitBegins(t) ==
    /\ pc[t] = "idle"
    /\ op'[t] = "exit"

\* Thread t, in __exit__, takes the step of _release_session in which the
\* destroy URL is built and the request sent.
ExitReleases(t) ==
    /\ op[t] = "exit"
    /\ pc[t] = "destroy"
    /\ pc'[t] # "destroy"

\* C18 as claimed: an __exit__ called on an Idle instance finds no session id
\* cached and the heartbeat stopped, so that its _release_session has no
\* session to send a destroy request for; and an __exit__ that finds no id
\* cached ends without a request, with the id None, the heartbeat stopped
\* and the semaphore free.
C18_ExitOnIdleHarmless ==
    [][\A t \in Threads :
           /\ (ExitBegins(t) /\ Idle(InstOf(t))) =>
                  /\ session_id[InstOf(t)] = None
                  /\ ~heartbeating[InstOf(t)]
           /\ (ExitReleases(t) /\ session_id[InstOf(t)] = None) =>
                  /\ UNCHANGED <<service, faults>>
                  /\ session_id'[InstOf(t)] = None
                  /\ ~heartbeating'[InstOf(t)]
                  /\ ~semaphore'[InstOf(t)]]_vars

\* The steps thread t can take inside a call when its request is answered.
CallStep(t) ==
    \/ CreateSession(t)
    \/ StartJoin(t)
    \/ AcquireSessionInfo(t)
    \/ LockPut(t)
    \/ LockGet(t)
    \/ ReleaseSession(t)
    \/ ReleaseSessionNone(t)
    \/ ReleaseJoin(t)

\* The steps of heartbeat thread w; none of them waits for the semaphore.
WorkerStep(w) ==
    \/ HeartbeatStart(w)
    \/ HeartbeatCheck(w)
    \/ HeartbeatRenew(w)

\* Thread t, inside a call, is not blocked: it can take a step, or it is in a
\* join whose heartbeat thread can take one.  (A create request for which the
\* model has no session id left is outside the model, not blocked.)
NotBlocked(t) ==
    \/ ENABLED CallStep(t)
    \/ /\ pc[t] \in {"start_join", "release_join"}
       /\ ENABLED WorkerStep(heartbeat_thread[InstOf(t)])
    \/ /\ pc[t] = "acquire"
       /\ session_id[InstOf(t)] = None
       /\ nextId > MaxSessions

\* The semaphore of an instance is taken exactly while one of its threads is
\* inside __enter__ or __exit__, that thread is not blocked, and the
\* heartbeat threads can run whether the semaphore is taken or not.
SemaphoreFollowsCalls ==
    \A i \in Instances :
        /\ semaphore[i] <=> Inside(i) # {}
        /\ \A t \in Inside(i) : NotBlocked(t)
        /\ \A w \in WorkersOf(i) : ENABLED WorkerStep(w)

\* How far thread t is from the end of its call, at most.
CallRemaining(t) ==
    CASE pc[t] = "acquire" -> (IF session_id[InstOf(t)] # None THEN 7 ELSE 6)
      [] pc[t] = "start_join" -> 5
      [] pc[t] = "lock_put" -> 4
      [] pc[t] = "lock_get" -> 3
      [] pc[t] = "destroy" -> 2
      [] pc[t] = "release_join" -> 1
      [] OTHER -> 0

\* C19: the semaphore is free again whenever __enter__ or __exit__ has ended,
\* by return, LockAcquireException, TypeError or a transport error; a thread
\* inside a call is never blocked and every step brings it nearer to the end
\* of the call, where the semaphore is released, so a thread waiting for the
\* semaphore finds it free again; the heartbeat threads never wait for it.
C19_SemaphoreAlwaysReleased ==
    /\ []SemaphoreFollowsCalls
    /\ [][\A t \in Threads :
             /\ (CallRemaining(t) > 0 /\ <<pc[t], session_id[InstOf(t)]>>' #
                                            <<pc[t], session_id[InstOf(t)]>>)
                    => CallRemaining(t)' < CallRemaining(t)
             /\ Ends(t) => ~semaphore'[InstOf(t)]]_vars

\* C19 witness: thread a1 of A has left __enter__ by a transport error with
\* the session still cached, the semaphore is free, and thread a2 has taken
\* it for its own call.
C19_Witness ==
    /\ faults = 1
    /\ calls = 2
    /\ pc["a1"] = "idle"
    /\ pc["a2"] = "destroy"
    /\ semaphore["A"]
    /\ session_id["A"] # None
    /\ ~held["A"]
    /\ sessions # {}

\* Instance i is in LockHeld with its cached session live at the service.
HoldsLive(i) ==
    /\ held[i]
    /\ session_id[i] \in sessions

\* C20 as claimed: in every state at most one instance is in LockHeld with
\* its cached session live, and for such an instance the key is bound to
\* that session.
C20_OneLiveHolder ==
    /\ Cardinality({i \in Instances : HoldsLive(i)}) <= 1
    /\ \A i \in Instances : HoldsLive(i) => kv = session_id[i]

=============================================================================
